---- MODULE Spec2Model ----
(***************************************************************************)
(* Model of the Azure subscription selector (src/main.go): the bubbletea   *)
(* model App, its Update handlers, the commands they return and the two    *)
(* external az invocations.                                                *)
(*                                                                         *)
(* bubbletea runs every command returned by Update in its own goroutine    *)
(* and feeds the message it returns back into Update, which handles one    *)
(* message at a time.  A command that reads no field of App (the list      *)
(* invocation, a tick) is represented by the message it delivers: the time *)
(* the command takes is the time its message waits in msgs.  The closure   *)
(* of changeSubscription reads app.selectedID when it runs, so it waits in *)
(* cmds until it runs and only then yields its message.                    *)
(***************************************************************************)
EXTENDS Bags, FiniteSets, Integers, Sequences, TLC

VARIABLES
    state,          \* app.state
    subscriptions,  \* app.subscriptions
    list,           \* app.list: [items, cursor]; cursor is list.Index(), 0-based
    resultPage,     \* app.resultPage: <<>> is nil, <<page>> a *ResultPage
    selectedID,     \* app.selectedID
    err,            \* app.err: an error text, NilErr for nil
    retryCount,     \* app.retryCount
    lastOperation,  \* app.lastOperation
    cmds,           \* bag of changeSubscription closures returned and not yet run
    msgs,           \* bag of messages on their way to Update
    quit,           \* tea.Quit has been returned
    presses,        \* history: key presses so far that returned a command
    loaded,         \* history: a load result without error has been handled
    lastEvent,      \* history: the kind of message Update handled last
    unattended,     \* history: while no key has been pressed, the states passed
                    \* through and the number of list invocations; Nil afterwards
    acted,          \* history: outside Error, or a retry, back or confirm key
                    \* has been handled since the machine entered Error
    failedID,       \* history: the id the last failed set attempt was for
    data,           \* the bytes given to parseSubscriptions, as a JSON value
    parsed,         \* <<>> before parseSubscriptions returns, then <<its result>>
    width,          \* the global width
    height,         \* the global height
    listSize        \* the width and height given to app.list

vars == <<state, subscriptions, list, resultPage, selectedID, err, retryCount,
          lastOperation, cmds, msgs, quit, presses, loaded, lastEvent,
          unattended, acted, failedID, data, parsed, width, height, listSize>>

appVars == <<state, subscriptions, list, resultPage, selectedID, err,
             retryCount, lastOperation>>

parseVars == <<data, parsed>>

sizeVars == <<width, height, listSize>>

-----------------------------------------------------------------------------
(* Bounds of the model *)

\* longest subscription list az returns
MaxSubs == 2
\* most key presses of a run that make Update return a command
MaxPresses == 2
\* largest retry count the backoff computation is evaluated at
MaxDelayArg == 5

-----------------------------------------------------------------------------
(* Program constants *)

StateLoading == "Loading"
StateRetrying == "Retrying"
StateSelectingSubscription == "SelectingSubscription"
StateShowingResult == "ShowingResult"
StateError == "Error"

AppStates == {StateLoading, StateRetrying, StateSelectingSubscription,
              StateShowingResult, StateError}

ErrorTypeNetwork == "Network"
ErrorTypeAuth == "Auth"
ErrorTypePermission == "Permission"
ErrorTypeConfig == "Config"
ErrorTypeUnknown == "Unknown"

MaxRetries == 3
\* durations in milliseconds
BaseDelay == 500
MaxDelay == 5000
ResultTimeout == 1000
TimerInterval == 1000

KeyQuit == "q"
KeyCtrlC == "ctrl+c"
KeyEnter == "enter"
KeyRetry == "r"
KeyBack == "esc"

\* the keys the user presses: the bound ones and the list's browsing keys
Keys == {KeyQuit, KeyCtrlC, KeyEnter, KeyRetry, KeyBack, "down", "up"}

\* docStyle.GetFrameSize() of lipgloss.NewStyle().Margin(1, 2)
FrameWidth == 4
FrameHeight == 2

NilErr == "<nil>"
ErrAzureCLINotFound == "azure CLI not found in PATH"

\* diagnostic texts of a failed az invocation (the wrapped error)
ListCauses == {"exit status 1", "network timeout"}
SetCauses == {"exit status 1", "authentication failed"}
\* diagnostic texts of a failed json.Unmarshal
ParseCauses == {"unexpected end of JSON input"}

-----------------------------------------------------------------------------
(* Values *)

Nil == <<>>

SubIDs == <<"sub-1", "sub-2", "sub-3", "sub-4">>

\* the zero value of Subscription
ZeroSubscription == [ID |-> "", IsDefault |-> FALSE]

\* the lists a successful az account list can produce: n subscriptions with
\* distinct ids, any of them marked default
SubLists ==
    UNION { { [i \in 1..n |-> [ID |-> SubIDs[i], IsDefault |-> d[i]]] :
              d \in [1..n -> BOOLEAN] } : n \in 0..MaxSubs }

Add(bag, e) == bag (+) SetToBag({e})
Remove(bag, e) == bag (-) SetToBag({e})

Min(a, b) == IF a < b THEN a ELSE b

-----------------------------------------------------------------------------
(* Error classification and the retry controller *)

\* strings.Contains
Contains(s, substr) ==
    \E i \in 1..(Len(s) - Len(substr) + 1) :
        SubSeq(s, i, i + Len(substr) - 1) = substr

\* classifyError with the permission case moved to the front
classifyError_PermissionFirst(e) ==
    IF Contains(e, "permission") \/ Contains(e, "unauthorized")
    THEN [Err |-> e, Type |-> ErrorTypePermission, Retryable |-> FALSE,
          Suggestion |-> "Check that your account has the required permissions."]
    ELSE IF Contains(e, "network") \/ Contains(e, "connection") \/ Contains(e, "timeout")
    THEN [Err |-> e, Type |-> ErrorTypeNetwork, Retryable |-> TRUE,
          Suggestion |-> "Check your network connection and try again."]
    ELSE IF Contains(e, "authentication") \/ Contains(e, "login")
    THEN [Err |-> e, Type |-> ErrorTypeAuth, Retryable |-> FALSE,
          Suggestion |-> "Please run 'az login' to authenticate with Azure."]
    ELSE IF Contains(e, "not found") \/ Contains(e, "az")
    THEN [Err |-> e, Type |-> ErrorTypeConfig, Retryable |-> FALSE,
          Suggestion |-> "Ensure Azure CLI is installed and in your PATH."]
    ELSE [Err |-> e, Type |-> ErrorTypeUnknown, Retryable |-> TRUE,
          Suggestion |-> "An unexpected error occurred. Please try again."]

\* classifyError with the default case not retryable
classifyError_UnknownNotRetryable(e) ==
    IF Contains(e, "network") \/ Contains(e, "connection") \/ Contains(e, "timeout")
    THEN [Err |-> e, Type |-> ErrorTypeNetwork, Retryable |-> TRUE,
          Suggestion |-> "Check your network connection and try again."]
    ELSE IF Contains(e, "authentication") \/ Contains(e, "login")
    THEN [Err |-> e, Type |-> ErrorTypeAuth, Retryable |-> FALSE,
          Suggestion |-> "Please run 'az login' to authenticate with Azure."]
    ELSE IF Contains(e, "permission") \/ Contains(e, "unauthorized")
    THEN [Err |-> e, Type |-> ErrorTypePermission, Retryable |-> FALSE,
          Suggestion |-> "Check that your account has the required permissions."]
    ELSE IF Contains(e, "not found") \/ Contains(e, "az")
    THEN [Err |-> e, Type |-> ErrorTypeConfig, Retryable |-> FALSE,
          Suggestion |-> "Ensure Azure CLI is installed and in your PATH."]
    ELSE [Err |-> e, Type |-> ErrorTypeUnknown, Retryable |-> FALSE,
          Suggestion |-> "An unexpected error occurred. Please try again."]

\* classifyError without the keyword "az" in the configuration case
classifyError_NoToolName(e) ==
    IF Contains(e, "network") \/ Contains(e, "connection") \/ Contains(e, "timeout")
    THEN [Err |-> e, Type |-> ErrorTypeNetwork, Retryable |-> TRUE,
          Suggestion |-> "Check your network connection and try again."]
    ELSE IF Contains(e, "authentication") \/ Contains(e, "login")
    THEN [Err |-> e, Type |-> ErrorTypeAuth, Retryable |-> FALSE,
          Suggestion |-> "Please run 'az login' to authenticate with Azure."]
    ELSE IF Contains(e, "permission") \/ Contains(e, "unauthorized")
    THEN [Err |-> e, Type |-> ErrorTypePermission, Retryable |-> FALSE,
          Suggestion |-> "Check that your account has the required permissions."]
    ELSE IF Contains(e, "not found")
    THEN [Err |-> e, Type |-> ErrorTypeConfig, Retryable |-> FALSE,
          Suggestion |-> "Ensure Azure CLI is installed and in your PATH."]
    ELSE [Err |-> e, Type |-> ErrorTypeUnknown, Retryable |-> TRUE,
          Suggestion |-> "An unexpected error occurred. Please try again."]

classifyError(e) ==
    IF Contains(e, "network") \/ Contains(e, "connection") \/ Contains(e, "timeout")
    THEN [Err |-> e, Type |-> ErrorTypeNetwork, Retryable |-> TRUE,
          Suggestion |-> "Check your network connection and try again."]
    ELSE IF Contains(e, "authentication") \/ Contains(e, "login")
    THEN [Err |-> e, Type |-> ErrorTypeAuth, Retryable |-> FALSE,
          Suggestion |-> "Please run 'az login' to authenticate with Azure."]
    ELSE IF Contains(e, "permission") \/ Contains(e, "unauthorized")
    THEN [Err |-> e, Type |-> ErrorTypePermission, Retryable |-> FALSE,
          Suggestion |-> "Check that your account has the required permissions."]
    ELSE IF Contains(e, "not found") \/ Contains(e, "az")
    THEN [Err |-> e, Type |-> ErrorTypeConfig, Retryable |-> FALSE,
          Suggestion |-> "Ensure Azure CLI is installed and in your PATH."]
    ELSE [Err |-> e, Type |-> ErrorTypeUnknown, Retryable |-> TRUE,
          Suggestion |-> "An unexpected error occurred. Please try again."]

\* shouldRetry with the limit off by one
shouldRetry_OffByOne(e, count) ==
    IF count > MaxRetries THEN FALSE ELSE classifyError(e).Retryable

\* shouldRetry without the classification
shouldRetry_AnyKind(e, count) ==
    IF count >= MaxRetries THEN FALSE ELSE TRUE

\* app.shouldRetry(err) with app.retryCount = count, app.maxRetries = MaxRetries
shouldRetry(e, count) ==
    IF count >= MaxRetries THEN FALSE ELSE classifyError(e).Retryable

\* retryDelay without the cap
retryDelay_NoCap(count) == BaseDelay * (2 ^ count)

\* the delay retryOperation computes with app.retryCount = count
retryDelay(count) ==
    LET delay == BaseDelay * (2 ^ count)
    IN  IF delay > MaxDelay THEN MaxDelay ELSE delay

\* retryOperation with the delay of the count before the increment
retryOperation_CountBefore(count) ==
    [type |-> "RetryMsg", from |-> "tick", delay |-> retryDelay(count - 1)]

\* app.retryOperation(): a tea.Tick that delivers RetryMsg after the delay
\* (from and delay are history fields of the message)
retryOperation(count) ==
    [type |-> "RetryMsg", from |-> "tick", delay |-> retryDelay(count)]

\* findDefaultSubscription returning the last default
findDefaultSubscription_Last(subs) ==
    IF \E i \in 1..Len(subs) : subs[i].IsDefault
    THEN (CHOOSE i \in 1..Len(subs) :
            /\ subs[i].IsDefault
            /\ \A j \in (i + 1)..Len(subs) : ~subs[j].IsDefault) - 1
    ELSE -1

\* slices.IndexFunc over IsDefault: 0-based index of the first default, -1 if none
findDefaultSubscription(subs) ==
    IF \E i \in 1..Len(subs) : subs[i].IsDefault
    THEN (CHOOSE i \in 1..Len(subs) :
            /\ subs[i].IsDefault
            /\ \A j \in 1..(i - 1) : ~subs[j].IsDefault) - 1
    ELSE -1

\* fmt.Errorf(prefix + ": %w", cause)
Errorf(prefix, cause) == prefix \o ": " \o cause

-----------------------------------------------------------------------------
(* Messages and commands *)

\* invoked is a history field: whether the command started the az process
SubscriptionsLoadedMsg(subs, e, inv) ==
    [type |-> "SubscriptionsLoadedMsg", Subscriptions |-> subs, Error |-> e,
     invoked |-> inv]

\* origin, same, chosen and gateway are history fields: where the closure came
\* from ("enter" or "retry"), whether the chosen id equalled app.selectedID
\* when Update returned the closure, the chosen id, and whether the closure
\* went on to the az gateway (the PATH lookup and az account set); invoked is
\* whether it started the az process
SubscriptionChangedMsg(sub, changed, e, c, gw, inv) ==
    [type |-> "SubscriptionChangedMsg", Subscription |-> sub, Changed |-> changed,
     Error |-> e, origin |-> c.origin, same |-> c.same, chosen |-> c.sub.ID,
     gateway |-> gw, invoked |-> inv]

\* func() tea.Msg { return RetryMsg{} } of the retry key
RetryKeyMsg == [type |-> "RetryMsg", from |-> "key", delay |-> 0]
BackMsg == [type |-> "BackMsg"]
TimerTickMsg == [type |-> "timer.TickMsg"]
TimeoutMsg == [type |-> "timer.TimeoutMsg"]
KeyMsg(key) == [type |-> "KeyMsg", key |-> key]
WindowSizeMsg(w, h) == [type |-> "tea.WindowSizeMsg", Width |-> w, Height |-> h]

\* what lastEvent keeps of a message: its type, the key of a KeyMsg, and
\* whether a result message carries no error
Event(msg) ==
    [type |-> msg.type,
     key  |-> IF msg.type = "KeyMsg" THEN msg.key ELSE "",
     ok   |-> IF msg.type \in {"SubscriptionsLoadedMsg", "SubscriptionChangedMsg"}
              THEN msg.Error = NilErr ELSE TRUE]

\* the messages app.loadSubscriptions can return: the PATH lookup fails, the
\* az invocation fails, the payload does not parse, or a list is parsed
loadSubscriptions ==
    { SubscriptionsLoadedMsg(<<>>, ErrAzureCLINotFound, FALSE) }
    \cup
    { SubscriptionsLoadedMsg(<<>>,
          Errorf("failed to fetch subscription data",
                 Errorf("azure CLI command failed", c)), TRUE) : c \in ListCauses }
    \cup
    { SubscriptionsLoadedMsg(<<>>,
          Errorf("failed to parse subscription data",
                 Errorf("failed to unmarshal JSON", c)), TRUE) : c \in ParseCauses }
    \cup
    { SubscriptionsLoadedMsg(subs, NilErr, TRUE) : subs \in SubLists }

\* the closure app.changeSubscription(subscription) returns
changeSubscription(sub, origin) ==
    [sub |-> sub, origin |-> origin, same |-> (sub.ID = selectedID)]

\* changeSubscriptionRun with az account set started before the PATH lookup
changeSubscriptionRun_LookupLast(c) ==
    IF c.sub.ID = selectedID
    THEN { SubscriptionChangedMsg(ZeroSubscription, FALSE, NilErr, c, FALSE, FALSE) }
    ELSE { SubscriptionChangedMsg(ZeroSubscription, FALSE, ErrAzureCLINotFound, c,
                                  TRUE, TRUE) }
         \cup
         { SubscriptionChangedMsg(ZeroSubscription, FALSE,
               Errorf("failed to change subscription", cause), c, TRUE, TRUE) :
               cause \in SetCauses }
         \cup
         { SubscriptionChangedMsg(c.sub, TRUE, NilErr, c, TRUE, TRUE) }

\* the messages the closure c can return when it runs: it compares with
\* app.selectedID as it is then, looks az up and invokes az account set
changeSubscriptionRun(c) ==
    IF c.sub.ID = selectedID
    THEN { SubscriptionChangedMsg(ZeroSubscription, FALSE, NilErr, c, FALSE, FALSE) }
    ELSE { SubscriptionChangedMsg(ZeroSubscription, FALSE, ErrAzureCLINotFound, c,
                                  TRUE, FALSE) }
         \cup
         { SubscriptionChangedMsg(ZeroSubscription, FALSE,
               Errorf("failed to change subscription", cause), c, TRUE, TRUE) :
               cause \in SetCauses }
         \cup
         { SubscriptionChangedMsg(c.sub, TRUE, NilErr, c, TRUE, TRUE) }

\* NewResultPage(changed)
NewResultPage(changed) == [changed |-> changed, timeout |-> ResultTimeout]

\* list.SelectedItem(): the item under the cursor, Nil when out of range
SelectedItem ==
    IF list.cursor >= 0 /\ list.cursor < Len(list.items)
    THEN <<list.items[list.cursor + 1]>>
    ELSE Nil

-----------------------------------------------------------------------------
(* The subscription parser *)

\* JSON values, as json.Unmarshal scans them.  An object is the sequence of
\* its members in the order of the text; JInvalid is a text that is not JSON.
JNull == [kind |-> "null", val |-> ""]
JInvalid == [kind |-> "invalid", val |-> ""]
JBool(b) == [kind |-> "bool", val |-> b]
JNumber(n) == [kind |-> "number", val |-> n]
JString(str) == [kind |-> "string", val |-> str]
JArray(elems) == [kind |-> "array", val |-> elems]
JObject(members) == [kind |-> "object", val |-> members]
Member(k, v) == [key |-> k, value |-> v]

\* the zero value of the struct Subscription with all its fields
ZeroRecord == [ID |-> "", Name |-> "", IsDefault |-> FALSE, User |-> [Name |-> ""]]

\* encoding/json finds the field of a member by its json tag, taking the exact
\* name or else a name that is equal when letter case is ignored (the keys of
\* the inputs that differ from a tag in letter case are listed); "" when the
\* key has no field
FieldFor(key, tags) ==
    LET folded == CASE key = "ID" -> "id"
                    [] key = "Name" -> "name"
                    [] OTHER -> key
    IN  IF key \in tags THEN key
        ELSE IF folded \in tags THEN folded
        ELSE ""

\* a JSON value stored into a Go string: null leaves the string as it is, a
\* value of another kind is an UnmarshalTypeError (ok = FALSE)
intoString(v, old) ==
    CASE v.kind = "string" -> [val |-> v.val, ok |-> TRUE]
      [] v.kind = "null" -> [val |-> old, ok |-> TRUE]
      [] OTHER -> [val |-> old, ok |-> FALSE]

\* a JSON value stored into a Go bool
intoBool(v, old) ==
    CASE v.kind = "bool" -> [val |-> v.val, ok |-> TRUE]
      [] v.kind = "null" -> [val |-> old, ok |-> TRUE]
      [] OTHER -> [val |-> old, ok |-> FALSE]

\* a JSON value stored into the field User: the members are taken in order,
\* a member without a field is skipped
intoUser(v, old) ==
    CASE v.kind = "object" ->
           LET f[i \in 0..Len(v.val)] ==
                 IF i = 0 THEN [val |-> old, ok |-> TRUE]
                 ELSE LET m == v.val[i]
                          prev == f[i - 1]
                      IN  IF FieldFor(m.key, {"name"}) = "name"
                          THEN LET r == intoString(m.value, prev.val.Name)
                               IN  [val |-> [Name |-> r.val], ok |-> prev.ok /\ r.ok]
                          ELSE prev
           IN  f[Len(v.val)]
      [] v.kind = "null" -> [val |-> old, ok |-> TRUE]
      [] OTHER -> [val |-> old, ok |-> FALSE]

\* intoSubscription of a decoder with DisallowUnknownFields
intoSubscription_DisallowUnknownFields(v, old) ==
    CASE v.kind = "object" ->
           LET f[i \in 0..Len(v.val)] ==
                 IF i = 0 THEN [val |-> old, ok |-> TRUE]
                 ELSE LET m == v.val[i]
                          prev == f[i - 1]
                          field == FieldFor(m.key, {"id", "name", "isDefault", "user"})
                      IN  CASE field = "id" ->
                                 LET r == intoString(m.value, prev.val.ID)
                                 IN  [val |-> [prev.val EXCEPT !.ID = r.val],
                                      ok |-> prev.ok /\ r.ok]
                            [] field = "name" ->
                                 LET r == intoString(m.value, prev.val.Name)
                                 IN  [val |-> [prev.val EXCEPT !.Name = r.val],
                                      ok |-> prev.ok /\ r.ok]
                            [] field = "isDefault" ->
                                 LET r == intoBool(m.value, prev.val.IsDefault)
                                 IN  [val |-> [prev.val EXCEPT !.IsDefault = r.val],
                                      ok |-> prev.ok /\ r.ok]
                            [] field = "user" ->
                                 LET r == intoUser(m.value, prev.val.User)
                                 IN  [val |-> [prev.val EXCEPT !.User = r.val],
                                      ok |-> prev.ok /\ r.ok]
                            [] OTHER -> [val |-> prev.val, ok |-> FALSE]
           IN  f[Len(v.val)]
      [] v.kind = "null" -> [val |-> old, ok |-> TRUE]
      [] OTHER -> [val |-> old, ok |-> FALSE]

\* a JSON value stored into a Subscription: the members are taken in order,
\* each stored into the field of its key; a member without a field is
\* skipped, a field without a member keeps its value
intoSubscription(v, old) ==
    CASE v.kind = "object" ->
           LET f[i \in 0..Len(v.val)] ==
                 IF i = 0 THEN [val |-> old, ok |-> TRUE]
                 ELSE LET m == v.val[i]
                          prev == f[i - 1]
                          field == FieldFor(m.key, {"id", "name", "isDefault", "user"})
                      IN  CASE field = "id" ->
                                 LET r == intoString(m.value, prev.val.ID)
                                 IN  [val |-> [prev.val EXCEPT !.ID = r.val],
                                      ok |-> prev.ok /\ r.ok]
                            [] field = "name" ->
                                 LET r == intoString(m.value, prev.val.Name)
                                 IN  [val |-> [prev.val EXCEPT !.Name = r.val],
                                      ok |-> prev.ok /\ r.ok]
                            [] field = "isDefault" ->
                                 LET r == intoBool(m.value, prev.val.IsDefault)
                                 IN  [val |-> [prev.val EXCEPT !.IsDefault = r.val],
                                      ok |-> prev.ok /\ r.ok]
                            [] field = "user" ->
                                 LET r == intoUser(m.value, prev.val.User)
                                 IN  [val |-> [prev.val EXCEPT !.User = r.val],
                                      ok |-> prev.ok /\ r.ok]
                            [] OTHER -> prev
           IN  f[Len(v.val)]
      [] v.kind = "null" -> [val |-> old, ok |-> TRUE]
      [] OTHER -> [val |-> old, ok |-> FALSE]

\* json.Unmarshal(data, &subscriptions) with subscriptions a nil
\* []Subscription: a text that is not JSON is a SyntaxError; null leaves the
\* slice nil; an array gives one element per value; the first
\* UnmarshalTypeError is returned after the rest has been decoded
Unmarshal(v) ==
    CASE v.kind = "invalid" ->
           [subs |-> <<>>, err |-> "invalid character 'j' looking for beginning of value"]
      [] v.kind = "null" -> [subs |-> <<>>, err |-> NilErr]
      [] v.kind = "array" ->
           LET elems == [i \in 1..Len(v.val) |-> intoSubscription(v.val[i], ZeroRecord)]
           IN  [subs |-> [i \in 1..Len(v.val) |-> elems[i].val],
                err |-> IF \A i \in 1..Len(v.val) : elems[i].ok
                        THEN NilErr
                        ELSE "json: cannot unmarshal value into Go struct field"]
      [] OTHER ->
           [subs |-> <<>>,
            err |-> "json: cannot unmarshal value into Go value of type []main.Subscription"]

\* parseSubscriptions(data)
parseSubscriptions(d) ==
    LET r == Unmarshal(d)
    IN  IF r.err # NilErr
        THEN [subs |-> <<>>, err |-> Errorf("failed to unmarshal JSON", r.err)]
        ELSE [subs |-> r.subs, err |-> NilErr]

\* a record as az account list prints it
AzRecord(id, def) ==
    <<Member("id", JString(id)),
      Member("isDefault", JBool(def)),
      Member("name", JString("Subscription " \o id)),
      Member("user", JObject(<<Member("name", JString("user@example.com"))>>))>>

\* the same record with members the struct has no field for
AzRecordWithExtras(id, def) ==
    <<Member("cloudName", JString("AzureCloud"))>>
    \o AzRecord(id, def)
    \o <<Member("tenantId", JString("tenant-1"))>>

\* a sequence of members without the members of key k
Without(members, k) == SelectSeq(members, LAMBDA m : m.key # k)

\* a sequence of members with the value of the member of key k replaced
With(members, k, v) ==
    [i \in 1..Len(members) |->
        IF members[i].key = k THEN Member(k, v) ELSE members[i]]

\* the array elements of the inputs: complete records, with and without
\* extra members, and records and values that are not complete records
JSONElements ==
    { JObject(AzRecord(SubIDs[i], def)) : i \in 1..2, def \in BOOLEAN }
    \cup
    { JObject(AzRecordWithExtras(SubIDs[i], def)) : i \in 1..2, def \in BOOLEAN }
    \cup
    { JObject(Without(AzRecord("sub-1", TRUE), k)) :
        k \in {"id", "name", "isDefault", "user"} }
    \cup
    { JObject(With(AzRecord("sub-1", TRUE), "user", JObject(<<>>))),
      JObject(With(AzRecord("sub-1", TRUE), "user", JString("user@example.com"))),
      JObject(With(AzRecord("sub-1", TRUE), "id", JNumber(1))),
      JObject(With(AzRecord("sub-1", TRUE), "id", JNull)),
      JObject(With(AzRecord("sub-1", TRUE), "isDefault", JString("true"))),
      JObject(<<Member("ID", JString("sub-2"))>> \o Without(AzRecord("sub-1", TRUE), "id")),
      JObject(AzRecord("sub-1", TRUE) \o <<Member("ID", JString("sub-2"))>>),
      JNull,
      JNumber(1) }

\* the texts given to parseSubscriptions: arrays of up to MaxSubs elements,
\* values that are not arrays, and a text that is not JSON
JSONInputs ==
    { JArray(elems) :
        elems \in UNION { [1..n -> JSONElements] : n \in 0..MaxSubs } }
    \cup
    { JObject(AzRecord("sub-1", TRUE)), JNull, JString("sub-1"), JNumber(1),
      JInvalid }

-----------------------------------------------------------------------------
(* Update: one operator per handler *)

\* handleKeyMsg with the quit keys checked inside the switch on app.state
handleKeyMsg_QuitWhenSelecting(key) ==
    /\ lastEvent' = Event(KeyMsg(key))
    /\ IF state = StateSelectingSubscription /\ (key = KeyQuit \/ key = KeyCtrlC)
       THEN /\ quit' = TRUE
            /\ UNCHANGED <<appVars, cmds, msgs>>
       ELSE /\ IF state = StateSelectingSubscription /\ key = KeyEnter
                  /\ SelectedItem # Nil
               THEN /\ cmds' = Add(cmds, changeSubscription(SelectedItem[1], "enter"))
                    /\ msgs' = msgs
               ELSE IF state = StateError /\ key = KeyRetry
               THEN /\ msgs' = Add(msgs, RetryKeyMsg)
                    /\ cmds' = cmds
               ELSE IF \/ state = StateError /\ key = KeyBack
                       \/ state = StateShowingResult /\ (key = KeyBack \/ key = KeyEnter)
               THEN /\ msgs' = Add(msgs, BackMsg)
                    /\ cmds' = cmds
               ELSE UNCHANGED <<cmds, msgs>>
            /\ UNCHANGED <<appVars, quit>>

\* The commands func() tea.Msg { return RetryMsg{} } and
\* func() tea.Msg { return BackMsg{} } are represented by their messages.
\* No branch passes the key on to app.list.
handleKeyMsg(key) ==
    /\ lastEvent' = Event(KeyMsg(key))
    /\ IF key = KeyQuit \/ key = KeyCtrlC
       THEN /\ quit' = TRUE
            /\ UNCHANGED <<appVars, cmds, msgs>>
       ELSE /\ IF state = StateSelectingSubscription /\ key = KeyEnter
                  /\ SelectedItem # Nil
               THEN /\ cmds' = Add(cmds, changeSubscription(SelectedItem[1], "enter"))
                    /\ msgs' = msgs
               ELSE IF state = StateError /\ key = KeyRetry
               THEN /\ msgs' = Add(msgs, RetryKeyMsg)
                    /\ cmds' = cmds
               ELSE IF \/ state = StateError /\ key = KeyBack
                       \/ state = StateShowingResult /\ (key = KeyBack \/ key = KeyEnter)
               THEN /\ msgs' = Add(msgs, BackMsg)
                    /\ cmds' = cmds
               ELSE UNCHANGED <<cmds, msgs>>
            /\ UNCHANGED <<appVars, quit>>

\* handleSubscriptionsLoaded without app.retryCount++
handleSubscriptionsLoaded_CountNotIncremented(msg) ==
    /\ lastEvent' = Event(msg)
    /\ IF msg.Error # NilErr
       THEN IF shouldRetry(msg.Error, retryCount)
            THEN /\ lastOperation' = "load"
                 /\ state' = StateRetrying
                 /\ msgs' = Add(Remove(msgs, msg), retryOperation(retryCount))
                 /\ UNCHANGED <<subscriptions, list, resultPage, selectedID, err,
                                retryCount>>
            ELSE /\ err' = msg.Error
                 /\ state' = StateError
                 /\ msgs' = Remove(msgs, msg)
                 /\ UNCHANGED <<subscriptions, list, resultPage, selectedID,
                                retryCount, lastOperation>>
       ELSE LET defaultIndex == findDefaultSubscription(msg.Subscriptions)
            IN  /\ state' = StateSelectingSubscription
                /\ subscriptions' = msg.Subscriptions
                /\ retryCount' = 0
                /\ IF defaultIndex >= 0
                   THEN /\ selectedID' = msg.Subscriptions[defaultIndex + 1].ID
                        /\ list' = [items |-> msg.Subscriptions, cursor |-> defaultIndex]
                   ELSE /\ selectedID' = selectedID
                        /\ list' = [items |-> msg.Subscriptions, cursor |-> list.cursor]
                /\ msgs' = Remove(msgs, msg)
                /\ UNCHANGED <<resultPage, err, lastOperation>>
    /\ UNCHANGED <<cmds, quit>>

\* handleSubscriptionsLoaded without app.err = msg.Error
handleSubscriptionsLoaded_ErrNotStored(msg) ==
    /\ lastEvent' = Event(msg)
    /\ IF msg.Error # NilErr
       THEN IF shouldRetry(msg.Error, retryCount)
            THEN /\ retryCount' = retryCount + 1
                 /\ lastOperation' = "load"
                 /\ state' = StateRetrying
                 /\ msgs' = Add(Remove(msgs, msg), retryOperation(retryCount'))
                 /\ UNCHANGED <<subscriptions, list, resultPage, selectedID, err>>
            ELSE /\ state' = StateError
                 /\ msgs' = Remove(msgs, msg)
                 /\ UNCHANGED <<subscriptions, list, resultPage, selectedID, err,
                                retryCount, lastOperation>>
       ELSE LET defaultIndex == findDefaultSubscription(msg.Subscriptions)
            IN  /\ state' = StateSelectingSubscription
                /\ subscriptions' = msg.Subscriptions
                /\ retryCount' = 0
                /\ IF defaultIndex >= 0
                   THEN /\ selectedID' = msg.Subscriptions[defaultIndex + 1].ID
                        /\ list' = [items |-> msg.Subscriptions, cursor |-> defaultIndex]
                   ELSE /\ selectedID' = selectedID
                        /\ list' = [items |-> msg.Subscriptions, cursor |-> list.cursor]
                /\ msgs' = Remove(msgs, msg)
                /\ UNCHANGED <<resultPage, err, lastOperation>>
    /\ UNCHANGED <<cmds, quit>>

\* list.Select(defaultIndex) puts the cursor on the index; list.SetItems
\* replaces the items and leaves the cursor where it is
handleSubscriptionsLoaded(msg) ==
    /\ lastEvent' = Event(msg)
    /\ IF msg.Error # NilErr
       THEN IF shouldRetry(msg.Error, retryCount)
            THEN /\ retryCount' = retryCount + 1
                 /\ lastOperation' = "load"
                 /\ state' = StateRetrying
                 /\ msgs' = Add(Remove(msgs, msg), retryOperation(retryCount'))
                 /\ UNCHANGED <<subscriptions, list, resultPage, selectedID, err>>
            ELSE /\ err' = msg.Error
                 /\ state' = StateError
                 /\ msgs' = Remove(msgs, msg)
                 /\ UNCHANGED <<subscriptions, list, resultPage, selectedID,
                                retryCount, lastOperation>>
       ELSE LET defaultIndex == findDefaultSubscription(msg.Subscriptions)
            IN  /\ state' = StateSelectingSubscription
                /\ subscriptions' = msg.Subscriptions
                /\ retryCount' = 0
                /\ IF defaultIndex >= 0
                   THEN /\ selectedID' = msg.Subscriptions[defaultIndex + 1].ID
                        /\ list' = [items |-> msg.Subscriptions, cursor |-> defaultIndex]
                   ELSE /\ selectedID' = selectedID
                        /\ list' = [items |-> msg.Subscriptions, cursor |-> list.cursor]
                /\ msgs' = Remove(msgs, msg)
                /\ UNCHANGED <<resultPage, err, lastOperation>>
    /\ UNCHANGED <<cmds, quit>>

\* handleSubscriptionChanged with the retry branch copied from
\* handleSubscriptionsLoaded, "load" left in place
handleSubscriptionChanged_RecordsLoad(msg) ==
    /\ lastEvent' = Event(msg)
    /\ IF msg.Error # NilErr
       THEN IF shouldRetry(msg.Error, retryCount)
            THEN /\ retryCount' = retryCount + 1
                 /\ lastOperation' = "load"
                 /\ state' = StateRetrying
                 /\ msgs' = Add(Remove(msgs, msg), retryOperation(retryCount'))
                 /\ UNCHANGED <<subscriptions, list, resultPage, selectedID, err>>
            ELSE /\ err' = msg.Error
                 /\ state' = StateError
                 /\ msgs' = Remove(msgs, msg)
                 /\ UNCHANGED <<subscriptions, list, resultPage, selectedID,
                                retryCount, lastOperation>>
       ELSE /\ selectedID' = msg.Subscription.ID
            /\ resultPage' = <<NewResultPage(msg.Changed)>>
            /\ state' = StateShowingResult
            /\ retryCount' = 0
            /\ msgs' = Add(Remove(msgs, msg), TimerTickMsg)
            /\ UNCHANGED <<subscriptions, list, err, lastOperation>>
    /\ UNCHANGED <<cmds, quit>>

\* handleSubscriptionChanged without app.selectedID = msg.Subscription.ID
handleSubscriptionChanged_KeepsSelected(msg) ==
    /\ lastEvent' = Event(msg)
    /\ IF msg.Error # NilErr
       THEN IF shouldRetry(msg.Error, retryCount)
            THEN /\ retryCount' = retryCount + 1
                 /\ lastOperation' = "change"
                 /\ state' = StateRetrying
                 /\ msgs' = Add(Remove(msgs, msg), retryOperation(retryCount'))
                 /\ UNCHANGED <<subscriptions, list, resultPage, selectedID, err>>
            ELSE /\ err' = msg.Error
                 /\ state' = StateError
                 /\ msgs' = Remove(msgs, msg)
                 /\ UNCHANGED <<subscriptions, list, resultPage, selectedID,
                                retryCount, lastOperation>>
       ELSE /\ resultPage' = <<NewResultPage(msg.Changed)>>
            /\ state' = StateShowingResult
            /\ retryCount' = 0
            /\ msgs' = Add(Remove(msgs, msg), TimerTickMsg)
            /\ UNCHANGED <<subscriptions, list, selectedID, err, lastOperation>>
    /\ UNCHANGED <<cmds, quit>>

handleSubscriptionChanged(msg) ==
    /\ lastEvent' = Event(msg)
    /\ IF msg.Error # NilErr
       THEN IF shouldRetry(msg.Error, retryCount)
            THEN /\ retryCount' = retryCount + 1
                 /\ lastOperation' = "change"
                 /\ state' = StateRetrying
                 /\ msgs' = Add(Remove(msgs, msg), retryOperation(retryCount'))
                 /\ UNCHANGED <<subscriptions, list, resultPage, selectedID, err>>
            ELSE /\ err' = msg.Error
                 /\ state' = StateError
                 /\ msgs' = Remove(msgs, msg)
                 /\ UNCHANGED <<subscriptions, list, resultPage, selectedID,
                                retryCount, lastOperation>>
       ELSE /\ selectedID' = msg.Subscription.ID
            /\ resultPage' = <<NewResultPage(msg.Changed)>>
            /\ state' = StateShowingResult
            /\ retryCount' = 0
            /\ msgs' = Add(Remove(msgs, msg), TimerTickMsg)
            /\ UNCHANGED <<subscriptions, list, err, lastOperation>>
    /\ UNCHANGED <<cmds, quit>>

\* handleRetry that returns no command for lastOperation = "load"
handleRetry_NoLoadCommand(msg) ==
    /\ lastEvent' = Event(msg)
    /\ IF lastOperation = "load"
       THEN /\ state' = StateLoading
            /\ msgs' = Remove(msgs, msg)
            /\ UNCHANGED <<subscriptions, list, resultPage, selectedID, err,
                           retryCount, lastOperation, cmds>>
       ELSE IF /\ lastOperation = "change"
               /\ Len(subscriptions) > 0
               /\ list.cursor < Len(subscriptions)
       THEN /\ cmds' = Add(cmds, changeSubscription(subscriptions[list.cursor + 1], "retry"))
            /\ msgs' = Remove(msgs, msg)
            /\ UNCHANGED appVars
       ELSE /\ state' = StateSelectingSubscription
            /\ err' = NilErr
            /\ retryCount' = 0
            /\ msgs' = Remove(msgs, msg)
            /\ UNCHANGED <<subscriptions, list, resultPage, selectedID,
                           lastOperation, cmds>>
    /\ quit' = quit

\* handleRetry without app.state = StateLoading
handleRetry_KeepState(msg) ==
    /\ lastEvent' = Event(msg)
    /\ IF lastOperation = "load"
       THEN /\ \E result \in loadSubscriptions :
                 msgs' = Add(Remove(msgs, msg), result)
            /\ UNCHANGED <<appVars, cmds>>
       ELSE IF /\ lastOperation = "change"
               /\ Len(subscriptions) > 0
               /\ list.cursor < Len(subscriptions)
       THEN /\ cmds' = Add(cmds, changeSubscription(subscriptions[list.cursor + 1], "retry"))
            /\ msgs' = Remove(msgs, msg)
            /\ UNCHANGED appVars
       ELSE /\ state' = StateSelectingSubscription
            /\ err' = NilErr
            /\ retryCount' = 0
            /\ msgs' = Remove(msgs, msg)
            /\ UNCHANGED <<subscriptions, list, resultPage, selectedID,
                           lastOperation, cmds>>
    /\ quit' = quit

handleRetry(msg) ==
    /\ lastEvent' = Event(msg)
    /\ IF lastOperation = "load"
       THEN /\ state' = StateLoading
            /\ \E result \in loadSubscriptions :
                 msgs' = Add(Remove(msgs, msg), result)
            /\ UNCHANGED <<subscriptions, list, resultPage, selectedID, err,
                           retryCount, lastOperation, cmds>>
       ELSE IF /\ lastOperation = "change"
               /\ Len(subscriptions) > 0
               /\ list.cursor < Len(subscriptions)
       THEN /\ cmds' = Add(cmds, changeSubscription(subscriptions[list.cursor + 1], "retry"))
            /\ msgs' = Remove(msgs, msg)
            /\ UNCHANGED appVars
       ELSE /\ state' = StateSelectingSubscription
            /\ err' = NilErr
            /\ retryCount' = 0
            /\ msgs' = Remove(msgs, msg)
            /\ UNCHANGED <<subscriptions, list, resultPage, selectedID,
                           lastOperation, cmds>>
    /\ quit' = quit

\* handleBack without app.retryCount = 0
handleBack_KeepsCount(msg) ==
    /\ lastEvent' = Event(msg)
    /\ state' = StateSelectingSubscription
    /\ err' = NilErr
    /\ resultPage' = Nil
    /\ msgs' = Remove(msgs, msg)
    /\ UNCHANGED <<subscriptions, list, selectedID, retryCount, lastOperation,
                   cmds, quit>>

\* handleBack without app.resultPage = nil
handleBack_KeepsResultPage(msg) ==
    /\ lastEvent' = Event(msg)
    /\ state' = StateSelectingSubscription
    /\ err' = NilErr
    /\ retryCount' = 0
    /\ msgs' = Remove(msgs, msg)
    /\ UNCHANGED <<subscriptions, list, resultPage, selectedID, lastOperation,
                   cmds, quit>>

handleBack(msg) ==
    /\ lastEvent' = Event(msg)
    /\ state' = StateSelectingSubscription
    /\ err' = NilErr
    /\ retryCount' = 0
    /\ resultPage' = Nil
    /\ msgs' = Remove(msgs, msg)
    /\ UNCHANGED <<subscriptions, list, selectedID, lastOperation, cmds, quit>>

\* handleWindowSizeMsg that also loads the subscriptions again
handleWindowSizeMsg_Reloads(msg) ==
    /\ lastEvent' = Event(msg)
    /\ width' = msg.Width
    /\ height' = msg.Height
    /\ listSize' = [width |-> msg.Width - FrameWidth, height |-> msg.Height - FrameHeight]
    /\ state' = StateLoading
    /\ \E result \in loadSubscriptions : msgs' = Add(msgs, result)
    /\ UNCHANGED <<subscriptions, list, resultPage, selectedID, err, retryCount,
                   lastOperation, cmds, quit>>

handleWindowSizeMsg(msg) ==
    /\ lastEvent' = Event(msg)
    /\ width' = msg.Width
    /\ height' = msg.Height
    /\ listSize' = [width |-> msg.Width - FrameWidth, height |-> msg.Height - FrameHeight]
    /\ UNCHANGED <<appVars, cmds, msgs, quit>>

\* updateSubComponents for a timer.TickMsg: the list ignores it; the result
\* page's timer, while running, counts down, ticks again and, once the time
\* is up, reports a timeout
updateSubComponents(msg) ==
    /\ lastEvent' = Event(msg)
    /\ IF resultPage # Nil /\ resultPage[1].timeout > 0
       THEN LET left == resultPage[1].timeout - TimerInterval
            IN  /\ resultPage' = <<[resultPage[1] EXCEPT !.timeout = left]>>
                /\ IF left <= 0
                   THEN msgs' = Add(Add(Remove(msgs, msg), TimerTickMsg), TimeoutMsg)
                   ELSE msgs' = Add(Remove(msgs, msg), TimerTickMsg)
       ELSE /\ msgs' = Remove(msgs, msg)
            /\ resultPage' = resultPage
    /\ UNCHANGED <<state, subscriptions, list, selectedID, err, retryCount,
                   lastOperation, cmds, quit>>

\* case timer.TimeoutMsg: return app, tea.Quit
handleTimeout(msg) ==
    /\ lastEvent' = Event(msg)
    /\ quit' = TRUE
    /\ msgs' = Remove(msgs, msg)
    /\ UNCHANGED <<appVars, cmds>>

-----------------------------------------------------------------------------
(* The program *)

\* NewApp() and Init(): the load command is on its way
Init ==
    /\ state = StateLoading
    /\ subscriptions = <<>>
    /\ list = [items |-> <<>>, cursor |-> 0]
    /\ resultPage = Nil
    /\ selectedID = ""
    /\ err = NilErr
    /\ retryCount = 0
    /\ lastOperation = ""
    /\ cmds = EmptyBag
    /\ \E result \in loadSubscriptions : msgs = SetToBag({result})
    /\ quit = FALSE
    /\ presses = 0
    /\ loaded = FALSE
    /\ lastEvent = [type |-> "none", key |-> "", ok |-> TRUE]
    /\ unattended = <<[path |-> <<StateLoading>>, listCalls |-> 1]>>
    /\ acted = TRUE
    /\ failedID = ""
    /\ data = Nil
    /\ parsed = Nil
    /\ width = 0
    /\ height = 0
    /\ listSize = [width |-> 0, height |-> 0]

\* the number of list results waiting in a bag of messages
ListResults(bag) ==
    LET loads == { m \in BagToSet(bag) : m.type = "SubscriptionsLoadedMsg" }
        Sum[S \in SUBSET loads] ==
            IF S = {} THEN 0
            ELSE LET m == CHOOSE x \in S : TRUE
                 IN  CopiesIn(m, bag) + Sum[S \ {m}]
    IN  Sum[loads]

\* keys whose handling can return a command
CommandKeys == {KeyEnter, KeyRetry, KeyBack}

\* the user presses a key
KeyPress ==
    /\ ~quit
    /\ \E key \in Keys :
         /\ key \in CommandKeys => presses < MaxPresses
         /\ handleKeyMsg(key)
         /\ presses' = IF cmds' # cmds \/ msgs' # msgs THEN presses + 1 ELSE presses
         /\ acted' = (acted \/ (state = StateError /\ key \in CommandKeys))
    /\ unattended' = Nil
    /\ UNCHANGED <<loaded, failedID, parseVars, sizeVars>>

\* Update(msg): the dispatch on the message type
UpdateMsg(msg) ==
    \/ msg.type = "SubscriptionsLoadedMsg" /\ handleSubscriptionsLoaded(msg)
    \/ msg.type = "SubscriptionChangedMsg" /\ handleSubscriptionChanged(msg)
    \/ msg.type = "RetryMsg" /\ handleRetry(msg)
    \/ msg.type = "BackMsg" /\ handleBack(msg)
    \/ msg.type = "timer.TickMsg" /\ updateSubComponents(msg)
    \/ msg.type = "timer.TimeoutMsg" /\ handleTimeout(msg)

\* the program takes a message that has arrived and passes it to Update
Update ==
    /\ ~quit
    /\ \E msg \in BagToSet(msgs) :
         /\ UpdateMsg(msg)
         /\ loaded' = (loaded \/ (msg.type = "SubscriptionsLoadedMsg" /\ msg.Error = NilErr))
         /\ unattended' =
                IF unattended = Nil THEN Nil
                ELSE <<[path |-> IF state' # state
                                 THEN Append(unattended[1].path, state')
                                 ELSE unattended[1].path,
                        listCalls |-> unattended[1].listCalls
                                      + ListResults(msgs') - ListResults(Remove(msgs, msg))]>>
         /\ acted' = IF state' # StateError THEN TRUE
                      ELSE IF state # StateError THEN FALSE
                      ELSE acted
         /\ failedID' = IF msg.type = "SubscriptionChangedMsg" /\ msg.Error # NilErr
                         THEN msg.chosen ELSE failedID
    /\ UNCHANGED <<presses, parseVars, sizeVars>>

\* a changeSubscription closure runs in its goroutine
RunChangeSubscription ==
    /\ ~quit
    /\ \E c \in BagToSet(cmds) :
         /\ cmds' = Remove(cmds, c)
         /\ \E changed \in changeSubscriptionRun(c) : msgs' = Add(msgs, changed)
    /\ UNCHANGED <<appVars, quit, presses, loaded, lastEvent, unattended, acted,
                   failedID, parseVars, sizeVars>>

Next ==
    \/ KeyPress
    \/ Update
    \/ RunChangeSubscription

Spec == Init /\ [][Next]_vars

\* The retry path: the user presses nothing but the retry and confirm keys,
\* and may press once more than MaxPresses (two retries and a confirmation
\* are three presses)
RetryPathKeys == {KeyRetry, KeyEnter}

KeyPressRetryPath ==
    /\ ~quit
    /\ presses < MaxPresses + 1
    /\ \E key \in RetryPathKeys :
         /\ handleKeyMsg(key)
         /\ presses' = IF cmds' # cmds \/ msgs' # msgs THEN presses + 1 ELSE presses
         /\ acted' = (acted \/ (state = StateError /\ key \in CommandKeys))
    /\ unattended' = Nil
    /\ UNCHANGED <<loaded, failedID, parseVars, sizeVars>>

NextRetryPath ==
    \/ KeyPressRetryPath
    \/ Update
    \/ RunChangeSubscription

SpecRetryPath == Init /\ [][NextRetryPath]_vars

\* The program loop takes every message that has arrived: a message that
\* waits in msgs is handled eventually
SpecRetryPathLive == SpecRetryPath /\ WF_vars(Update)

\* The program in a terminal whose window is resized: the terminal sends a
\* tea.WindowSizeMsg; the user presses at most ResizePresses keys that return
\* a command
WindowSizes == {<<80, 24>>, <<120, 40>>}

ResizePresses == 1

KeyPressResize ==
    /\ ~quit
    /\ \E key \in Keys :
         /\ key \in CommandKeys => presses < ResizePresses
         /\ handleKeyMsg(key)
         /\ presses' = IF cmds' # cmds \/ msgs' # msgs THEN presses + 1 ELSE presses
         /\ acted' = (acted \/ (state = StateError /\ key \in CommandKeys))
    /\ unattended' = Nil
    /\ UNCHANGED <<loaded, failedID, parseVars, sizeVars>>

Resize ==
    /\ ~quit
    /\ \E size \in WindowSizes : handleWindowSizeMsg(WindowSizeMsg(size[1], size[2]))
    /\ UNCHANGED <<presses, loaded, unattended, acted, failedID, parseVars>>

NextResize ==
    \/ KeyPressResize
    \/ Resize
    \/ Update
    \/ RunChangeSubscription

SpecResize == Init /\ [][NextResize]_vars

\* Every command returns and every message is handled: the goroutine of a
\* changeSubscription closure runs, az returns, ticks fire, and the program
\* loop passes each message that has arrived to Update.  Keys and window
\* sizes come when they come.
SpecResizeLive ==
    SpecResize /\ WF_vars(Update) /\ WF_vars(RunChangeSubscription)

\* The parser on its own: parseSubscriptions applied to a text
InitParse ==
    /\ state = StateLoading
    /\ subscriptions = <<>>
    /\ list = [items |-> <<>>, cursor |-> 0]
    /\ resultPage = Nil
    /\ selectedID = ""
    /\ err = NilErr
    /\ retryCount = 0
    /\ lastOperation = ""
    /\ cmds = EmptyBag
    /\ msgs = EmptyBag
    /\ quit = FALSE
    /\ presses = 0
    /\ loaded = FALSE
    /\ lastEvent = [type |-> "none", key |-> "", ok |-> TRUE]
    /\ unattended = Nil
    /\ acted = TRUE
    /\ failedID = ""
    /\ data \in JSONInputs
    /\ parsed = Nil
    /\ width = 0
    /\ height = 0
    /\ listSize = [width |-> 0, height |-> 0]

ParseSubscriptions ==
    /\ parsed = Nil
    /\ parsed' = <<parseSubscriptions(data)>>
    /\ UNCHANGED <<appVars, cmds, msgs, quit, presses, loaded, lastEvent,
                   unattended, acted, failedID, data, sizeVars>>

NextParse == ParseSubscriptions

SpecParse == InitParse /\ [][NextParse]_vars

TypeOK ==
    /\ state \in AppStates
    /\ retryCount \in Nat
    /\ lastOperation \in {"", "load", "change"}
    /\ quit \in BOOLEAN
    /\ subscriptions = list.items

-----------------------------------------------------------------------------
(* Confirming a subscription *)

\* the result messages of closures returned for an Enter key
EnterResults ==
    { m \in BagToSet(msgs) : m.type = "SubscriptionChangedMsg" /\ m.origin = "enter" }

\* C1: confirming with Enter the subscription whose id equals app.selectedID
\* makes no az account set call and yields an error-free result with
\* changed = false, which Update turns into ShowingResult with changed = false.
C1_SameIdUnchanged ==
    [][ /\ \A m \in { r \in BagToSet(msgs') : r.type = "SubscriptionChangedMsg" } :
             (m.origin = "enter" /\ m.same) =>
                 (~m.gateway /\ ~m.Changed /\ m.Error = NilErr)
        /\ \A m \in EnterResults :
             (m.same /\ ~quit /\ handleSubscriptionChanged(m)) =>
                 /\ state' = StateShowingResult
                 /\ resultPage' # Nil
                 /\ ~resultPage'[1].changed ]_vars

\* C2: confirming a subscription whose id differs from app.selectedID makes
\* exactly one set call at the gateway, for the chosen id: the closure runs
\* once, and when it has run it has gone to the gateway.
C2_DifferentIdOneSetCall ==
    \A m \in EnterResults :
        ~m.same => (m.gateway /\ (m.Changed => m.Subscription.ID = m.chosen))

\* C3: once a load result without error has been handled, app.selectedID is
\* not the empty string.
C3_SelectedIdNonEmptyAfterLoad ==
    loaded => selectedID # ""

\* C4: the user can browse the list: in SelectingSubscription, with the cursor
\* above the last subscription, the down key moves the cursor to the next one,
\* so that Enter can choose it.
C4_DownKeyMovesCursor ==
    [][ ( /\ ~quit
          /\ state = StateSelectingSubscription
          /\ list.cursor + 1 < Len(list.items)
          /\ handleKeyMsg("down") )
        => list'.cursor = list.cursor + 1 ]_vars


-----------------------------------------------------------------------------
(* The retry controller and the classifier *)

\* error texts the classifier is evaluated at: the inputs of
\* TestAppError_Classification and TestApp_ShouldRetry, spellings of them
\* that differ in letter case, and texts with keywords of several groups
ErrorTexts ==
    {"network connection failed", "authentication failed", "permission denied",
     "az command not found", "something went wrong", "network timeout",
     "Network Timeout", "Authentication failed",
     "timeout: permission denied", "login unauthorized", "az login"}

\* the error texts the two commands can deliver
ProgramErrors ==
    { m.Error : m \in { r \in loadSubscriptions : r.Error # NilErr } }
    \cup {ErrAzureCLINotFound}
    \cup { Errorf("failed to change subscription", c) : c \in SetCauses }

CheckedTexts == ErrorTexts \cup ProgramErrors

\* the errors of the current state: app.err and the errors of waiting messages
SeenErrors ==
    ({err} \cup { m.Error : m \in { r \in BagToSet(msgs) :
                        r.type \in {"SubscriptionsLoadedMsg", "SubscriptionChangedMsg"} } })
    \ {NilErr}

\* a failed list or set result waiting in msgs
FailedResults ==
    { m \in BagToSet(msgs) :
        /\ m.type \in {"SubscriptionsLoadedMsg", "SubscriptionChangedMsg"}
        /\ m.Error # NilErr }

\* C5: app.retryCount stays within 0..maxRetries in every state, and it is at
\* least 1 in Retrying.
C5_RetryCountBounded ==
    /\ retryCount >= 0
    /\ retryCount <= MaxRetries
    /\ state = StateRetrying => retryCount >= 1

C5_Witness ==
    state = StateRetrying /\ retryCount = MaxRetries

\* C6: a failed result is retried exactly when its error classifies as
\* retryable and retryCount < maxRetries; shouldRetry is false at and beyond
\* the limit whatever the kind, and false for a non-retryable error whatever
\* the count.
ShouldRetryTable ==
    \A e \in CheckedTexts : \A n \in 0..(MaxRetries + 1) :
        /\ shouldRetry(e, n) = (classifyError(e).Retryable /\ n < MaxRetries)
        /\ n >= MaxRetries => ~shouldRetry(e, n)
        /\ ~classifyError(e).Retryable => ~shouldRetry(e, n)

C6_ShouldRetry ==
    [][ /\ ShouldRetryTable
        /\ \A m \in FailedResults :
             (~quit /\ UpdateMsg(m)) =>
                 /\ state' \in {StateRetrying, StateError}
                 /\ (state' = StateRetrying) =
                        (classifyError(m.Error).Retryable /\ retryCount < MaxRetries) ]_vars

C6_Witness ==
    /\ state = StateError
    /\ lastEvent.type = "SubscriptionsLoadedMsg"
    /\ retryCount = MaxRetries
    /\ classifyError(err).Retryable

\* the keywords of a kind, in the order of the specification
Keywords(kind) ==
    CASE kind = ErrorTypeNetwork -> {"network", "connection", "timeout"}
      [] kind = ErrorTypeAuth -> {"authentication", "login"}
      [] kind = ErrorTypePermission -> {"permission", "unauthorized"}
      [] kind = ErrorTypeConfig -> {"not found", "az"}

Priority == <<ErrorTypeNetwork, ErrorTypeAuth, ErrorTypePermission, ErrorTypeConfig>>

Matches(e, kind) == \E k \in Keywords(kind) : Contains(e, k)

\* the kind of the earliest-listed group with a keyword in e
FirstMatch(e) ==
    IF \E i \in 1..Len(Priority) : Matches(e, Priority[i])
    THEN Priority[CHOOSE i \in 1..Len(Priority) :
                    /\ Matches(e, Priority[i])
                    /\ \A j \in 1..(i - 1) : ~Matches(e, Priority[j])]
    ELSE ErrorTypeUnknown

\* C7: classifyError gives a text the kind of the earliest-listed group one of
\* whose keywords it contains, Unknown if there is none; Network and Unknown
\* are retryable, the others are not; the result carries the error and a
\* suggestion.  Every error the program holds is among the texts checked.
ClassifyTable ==
    \A e \in CheckedTexts :
        LET appErr == classifyError(e)
        IN  /\ appErr.Type = FirstMatch(e)
            /\ appErr.Retryable = (appErr.Type \in {ErrorTypeNetwork, ErrorTypeUnknown})
            /\ appErr.Err = e
            /\ appErr.Suggestion # ""

C7_ClassifyPriority ==
    /\ ClassifyTable
    /\ SeenErrors \subseteq CheckedTexts

C7_Witness ==
    /\ state = StateError
    /\ Matches(err, ErrorTypeNetwork)
    /\ Matches(err, ErrorTypeConfig)
    /\ classifyError(err).Type = ErrorTypeNetwork

\* the lower-case letter of an upper-case letter
LowerOf ==
    [c \in {"A", "B", "C", "D", "E", "F", "G", "H", "I", "J", "K", "L", "M", "N",
            "O", "P", "Q", "R", "S", "T", "U", "V", "W", "X", "Y", "Z"} |->
        CASE c = "A" -> "a" [] c = "B" -> "b" [] c = "C" -> "c" [] c = "D" -> "d"
          [] c = "E" -> "e" [] c = "F" -> "f" [] c = "G" -> "g" [] c = "H" -> "h"
          [] c = "I" -> "i" [] c = "J" -> "j" [] c = "K" -> "k" [] c = "L" -> "l"
          [] c = "M" -> "m" [] c = "N" -> "n" [] c = "O" -> "o" [] c = "P" -> "p"
          [] c = "Q" -> "q" [] c = "R" -> "r" [] c = "S" -> "s" [] c = "T" -> "t"
          [] c = "U" -> "u" [] c = "V" -> "v" [] c = "W" -> "w" [] c = "X" -> "x"
          [] c = "Y" -> "y" [] c = "Z" -> "z"]

Lower(c) == IF c \in DOMAIN LowerOf THEN LowerOf[c] ELSE c

\* two texts differ only in letter case
EqualFold(a, b) ==
    /\ Len(a) = Len(b)
    /\ \A i \in 1..Len(a) : Lower(SubSeq(a, i, i)) = Lower(SubSeq(b, i, i))

\* C8: texts that differ only in letter case get the same kind and the same
\* retryable flag.
C8_CaseInsensitive ==
    \A a \in CheckedTexts \cup SeenErrors : \A b \in CheckedTexts :
        EqualFold(a, b) =>
            /\ classifyError(a).Type = classifyError(b).Type
            /\ classifyError(a).Retryable = classifyError(b).Retryable

\* C9: the backoff delay is min(BaseDelay * 2^retryCount, MaxDelay): it does
\* not decrease with the count and never exceeds MaxDelay, and the tick a
\* failed result schedules carries the delay of the count it was scheduled at.
C9_BackoffDelay ==
    /\ \A n \in 0..MaxDelayArg :
         /\ retryDelay(n) = Min(BaseDelay * (2 ^ n), MaxDelay)
         /\ retryDelay(n) <= MaxDelay
         /\ n < MaxDelayArg => retryDelay(n) <= retryDelay(n + 1)
    /\ \A m \in BagToSet(msgs) :
         (m.type = "RetryMsg" /\ m.from = "tick") =>
             /\ m.delay <= MaxDelay
             /\ \E n \in 0..MaxRetries : m.delay = Min(BaseDelay * (2 ^ n), MaxDelay)
    /\ (state = StateRetrying /\ lastEvent.type \in {"SubscriptionsLoadedMsg", "SubscriptionChangedMsg"})
         => \E m \in BagToSet(msgs) :
               /\ m.type = "RetryMsg" /\ m.from = "tick"
               /\ m.delay = Min(BaseDelay * (2 ^ retryCount), MaxDelay)

C9_Witness ==
    /\ state = StateRetrying
    /\ retryCount = MaxRetries
    /\ \E m \in BagToSet(msgs) :
         m.type = "RetryMsg" /\ m.from = "tick" /\ m.delay = 4000

-----------------------------------------------------------------------------
(* Loading *)

\* the 1-based positions of the subscriptions marked default
Defaults(subs) == { i \in 1..Len(subs) : subs[i].IsDefault }

\* C10: right after a load result without error has been handled the state is
\* SelectingSubscription and, if a subscription of the list is marked default,
\* the cursor is on the first such subscription and app.selectedID is its id;
\* findDefaultSubscription returns the smallest index of a default, -1 if none.
C10_DefaultPreselected ==
    /\ \A subs \in SubLists :
         LET index == findDefaultSubscription(subs)
         IN  IF Defaults(subs) = {}
             THEN index = -1
             ELSE /\ index + 1 \in Defaults(subs)
                  /\ \A i \in Defaults(subs) : index + 1 <= i
    /\ (lastEvent.type = "SubscriptionsLoadedMsg" /\ lastEvent.ok) =>
         /\ state = StateSelectingSubscription
         /\ Defaults(list.items) # {} =>
              \E i \in Defaults(list.items) :
                  /\ \A j \in Defaults(list.items) : i <= j
                  /\ list.cursor = i - 1
                  /\ selectedID = list.items[i].ID

C10_Witness ==
    /\ state = StateSelectingSubscription
    /\ lastEvent.type = "SubscriptionsLoadedMsg"
    /\ Cardinality(Defaults(list.items)) = 2
    /\ list.cursor = 0
    /\ selectedID = list.items[1].ID

-----------------------------------------------------------------------------
(* Runs without user input *)

\* the run so far has seen no key press and has made n list invocations
Unattended(n) == unattended # Nil /\ unattended[1].listCalls = n

\* C11 as stated: with no user input, a retryable failure of the first list
\* invocation and a success of the second take the machine through Loading,
\* Retrying, SelectingSubscription, and retryCount ends at 0.
C11_ScenarioB_Direct ==
    (Unattended(2) /\ state = StateSelectingSubscription) =>
        /\ unattended[1].path =
              <<StateLoading, StateRetrying, StateSelectingSubscription>>
        /\ retryCount = 0

\* C11 (amended): with no user input, a retryable failure of the first list
\* invocation and a success of the second take the machine through Loading,
\* Retrying, Loading again (the retry event re-enters Loading for the second
\* invocation) and SelectingSubscription, and retryCount ends at 0.
C11_ScenarioB ==
    (Unattended(2) /\ state = StateSelectingSubscription) =>
        /\ unattended[1].path =
              <<StateLoading, StateRetrying, StateLoading, StateSelectingSubscription>>
        /\ retryCount = 0

C11_Witness ==
    /\ Unattended(2)
    /\ state = StateSelectingSubscription
    /\ lastOperation = "load"

\* C12: with no user input, when the list invocation fails with a retryable
\* error maxRetries + 1 times in a row, the last failure puts the machine in
\* Error with retryCount = maxRetries and the error stored, still retryable;
\* maxRetries + 1 list invocations have been made and no more are made, and
\* nothing is scheduled: no message and no command is waiting.
C12_ScenarioC ==
    [][ /\ unattended' # Nil => unattended'[1].listCalls <= MaxRetries + 1
        /\ (unattended' # Nil /\ state' = StateError) =>
               (msgs' = EmptyBag /\ cmds' = EmptyBag)
        /\ \A m \in FailedResults :
             ( /\ Unattended(MaxRetries + 1)
               /\ ~quit
               /\ UpdateMsg(m)
               /\ classifyError(m.Error).Retryable )
             => /\ state' = StateError
                /\ retryCount' = MaxRetries
                /\ err' = m.Error
                /\ classifyError(err').Retryable
                /\ unattended'[1].listCalls = MaxRetries + 1 ]_vars

C12_Witness ==
    /\ Unattended(MaxRetries + 1)
    /\ state = StateError
    /\ retryCount = MaxRetries
    /\ classifyError(err).Retryable
    /\ unattended[1].path =
         <<StateLoading, StateRetrying, StateLoading, StateRetrying,
           StateLoading, StateRetrying, StateLoading, StateError>>

-----------------------------------------------------------------------------
(* Failures, retries and the Error state *)

\* the checked texts by what classifyError says of them
RetryableTexts == { e \in CheckedTexts : classifyError(e).Retryable }
NonRetryableTexts == { e \in CheckedTexts : ~classifyError(e).Retryable }

\* C13: a failed list or set result whose error classifies as non-retryable
\* takes the machine to Error in the one step that handles it, from whatever
\* state it is in: retryCount and lastOperation stay as they are, the error
\* is stored in app.err, and no tick and no command is scheduled.
C13_NonRetryableToError ==
    [][ \A m \in FailedResults :
          ( /\ ~quit
            /\ UpdateMsg(m)
            /\ m.Error \in NonRetryableTexts )
          => /\ state' = StateError
             /\ retryCount' = retryCount
             /\ lastOperation' = lastOperation
             /\ err' = m.Error
             /\ msgs' = Remove(msgs, m)
             /\ cmds' = cmds ]_vars

C13_Witness ==
    /\ state = StateError
    /\ lastEvent.type = "SubscriptionChangedMsg"
    /\ err = "failed to change subscription: authentication failed"
    /\ classifyError(err).Type = ErrorTypeAuth
    /\ retryCount = 0
    /\ msgs = EmptyBag

\* C14: from the moment the machine enters Error until a retry, back or
\* confirm key has been handled, no external call is started unless a key
\* asked for it: handling a tick's RetryMsg or a result that was still on its
\* way when Error was entered returns no changeSubscription closure and no
\* list invocation.
C14_NoCallInErrorWithoutKey ==
    [][ (state = StateError /\ ~acted /\ ~quit) =>
            \A m \in BagToSet(msgs) :
                ( /\ m.type = "RetryMsg" => m.from = "tick"
                  /\ UpdateMsg(m) )
                => /\ cmds' \sqsubseteq cmds
                   /\ ListResults(msgs') <= ListResults(msgs) ]_vars

\* the steps of handleRetry that start an external call: a list invocation
\* or a changeSubscription closure
StartsCall ==
    \/ ListResults(msgs') > ListResults(msgs)
    \/ ~(cmds' \sqsubseteq cmds)

\* C15: in Error the retry key re-attempts lastOperation directly, with no
\* backoff tick, and only if attempts remain: when retryCount >= maxRetries
\* the RetryMsg of the retry key starts no external call.
C15_RetryKeyOnlyIfAttemptsRemain ==
    [][ \A m \in BagToSet(msgs) :
          ( /\ m.type = "RetryMsg" /\ m.from = "key"
            /\ state = StateError
            /\ ~quit
            /\ UpdateMsg(m) )
          => /\ StartsCall => retryCount < MaxRetries
             /\ \A t \in BagToSet(msgs') :
                  (t.type = "RetryMsg" /\ t.from = "tick") =>
                      CopiesIn(t, msgs') <= CopiesIn(t, msgs) ]_vars

\* the operation a result message reports on, as lastOperation names it
OperationOf(m) == IF m.type = "SubscriptionsLoadedMsg" THEN "load" ELSE "change"

\* C17: handling a failed list or set result for which shouldRetry holds (the
\* error is retryable and retryCount < maxRetries) adds exactly 1 to
\* retryCount, records the operation in lastOperation ("load" or "change"),
\* enters Retrying and schedules exactly one tick that delivers RetryMsg, and
\* nothing else.
C17_RetryableFailure ==
    [][ \A m \in FailedResults :
          ( /\ ~quit
            /\ UpdateMsg(m)
            /\ m.Error \in RetryableTexts
            /\ retryCount < MaxRetries )
          => /\ retryCount' = retryCount + 1
             /\ lastOperation' = OperationOf(m)
             /\ state' = StateRetrying
             /\ cmds' = cmds
             /\ \E t \in BagToSet(msgs') :
                  /\ t.type = "RetryMsg" /\ t.from = "tick"
                  /\ msgs' = Add(Remove(msgs, m), t) ]_vars

C17_Witness ==
    /\ state = StateRetrying
    /\ lastEvent.type = "SubscriptionChangedMsg"
    /\ lastOperation = "change"
    /\ retryCount = 2
    /\ \E t \in BagToSet(msgs) : t.type = "RetryMsg" /\ t.from = "tick"

\* the closures a step adds to cmds
NewClosures == { c \in BagToSet(cmds') : CopiesIn(c, cmds') > CopiesIn(c, cmds) }

\* C18: when a RetryMsg (of a backoff tick or of the retry key) is handled
\* with lastOperation = "change", the set operation it re-invokes is for the
\* subscription id of the set attempt that failed last.
C18_RetrySameSubscription ==
    [][ \A m \in BagToSet(msgs) :
          ( /\ m.type = "RetryMsg"
            /\ lastOperation = "change"
            /\ ~quit
            /\ UpdateMsg(m) )
          => \A c \in NewClosures : c.sub.ID = failedID ]_vars

\* a result message without error, or a BackMsg
ResetEvents ==
    { m \in BagToSet(msgs) :
        \/ m.type \in {"SubscriptionsLoadedMsg", "SubscriptionChangedMsg"}
           /\ m.Error = NilErr
        \/ m.type = "BackMsg" }

\* C19: handling a load result without error, a change result without error
\* (changed or unchanged) or a back navigation leaves retryCount = 0, whatever
\* it was before.
C19_RetryCountReset ==
    [][ \A m \in ResetEvents :
          (~quit /\ UpdateMsg(m)) => retryCount' = 0 ]_vars

C19_Witness ==
    /\ lastEvent.type = "BackMsg"
    /\ state = StateSelectingSubscription
    /\ retryCount = 0
    /\ lastOperation = "load"
    /\ ~loaded
    /\ unattended = Nil

-----------------------------------------------------------------------------
(* Keys *)

QuitKeys == {KeyQuit, KeyCtrlC}

\* C16: in each of the five states a quit key ('q' or ctrl+c) makes Update
\* return tea.Quit and nothing else: state, retryCount, selectedID, err and
\* the other fields of App stay as they are, and no command, tick or call is
\* added to what is already on its way.
C16_QuitEverywhere ==
    [][ \A key \in QuitKeys :
          (~quit /\ handleKeyMsg(key)) =>
              /\ quit'
              /\ UNCHANGED <<appVars, cmds, msgs>> ]_vars

C16_Witness ==
    /\ quit
    /\ lastEvent.type = "KeyMsg"
    /\ lastEvent.key \in QuitKeys
    /\ state = StateRetrying
    /\ retryCount >= 1
    /\ msgs # EmptyBag

\* C20: the back key in Error or in ShowingResult makes Update return the
\* BackMsg command and nothing else, and handling a BackMsg puts the machine
\* in SelectingSubscription with err = nil, retryCount = 0 and no result page;
\* in Loading, Retrying and SelectingSubscription the back key changes no
\* field and returns no command.
C20_Back ==
    [][ /\ ( /\ state \in {StateError, StateShowingResult}
             /\ ~quit
             /\ handleKeyMsg(KeyBack) )
           => /\ msgs' = Add(msgs, BackMsg)
              /\ UNCHANGED <<appVars, cmds, quit>>
        /\ \A m \in BagToSet(msgs) :
             (m.type = "BackMsg" /\ ~quit /\ UpdateMsg(m)) =>
                 /\ state' = StateSelectingSubscription
                 /\ err' = NilErr
                 /\ retryCount' = 0
                 /\ resultPage' = Nil
                 /\ msgs' = Remove(msgs, m)
        /\ ( /\ state \in {StateLoading, StateRetrying, StateSelectingSubscription}
             /\ ~quit
             /\ handleKeyMsg(KeyBack) )
           => UNCHANGED <<appVars, cmds, msgs, quit>> ]_vars

C20_Witness ==
    /\ lastEvent.type = "BackMsg"
    /\ state = StateSelectingSubscription
    /\ resultPage = Nil
    /\ err = NilErr
    /\ retryCount = 0
    /\ TimerTickMsg \in BagToSet(msgs)

-----------------------------------------------------------------------------
(* The result page *)

\* C21: entering ShowingResult starts the countdown of the result page, and
\* when every waiting message is handled eventually, a ShowingResult state is
\* followed by the end of the program (the timer's TimeoutMsg makes Update
\* return tea.Quit) unless the user presses a key after it.
C21_CountdownEndsProgram ==
    (state = StateShowingResult) ~> (quit \/ lastEvent.type = "KeyMsg")

-----------------------------------------------------------------------------
(* Errors are kept *)

\* C22: no error is dropped: handling a failed list or set result, in whatever
\* state, either enters Retrying for that operation with a retry tick
\* scheduled, or enters Error with the error of the result stored in app.err;
\* it never enters SelectingSubscription or ShowingResult.
C22_NoErrorDropped ==
    [][ \A m \in FailedResults :
          (~quit /\ UpdateMsg(m))
          => \/ /\ state' = StateRetrying
                /\ lastOperation' = OperationOf(m)
                /\ CopiesIn(retryOperation(retryCount'), msgs')
                     = CopiesIn(retryOperation(retryCount'), msgs) + 1
             \/ /\ state' = StateError
                /\ err' = m.Error ]_vars

\* a failed set result handled while the result page of an earlier
\* confirmation was showing
C22_Witness ==
    /\ state = StateError
    /\ lastEvent.type = "SubscriptionChangedMsg"
    /\ ~lastEvent.ok
    /\ err = ErrAzureCLINotFound
    /\ resultPage # Nil

-----------------------------------------------------------------------------
(* The active subscription *)

\* the results of az account set calls that succeeded
SetSuccesses ==
    { m \in BagToSet(msgs) :
        m.type = "SubscriptionChangedMsg" /\ m.Error = NilErr /\ m.Changed }

\* the list results without error that mark a subscription default
LoadsWithDefault ==
    { m \in BagToSet(msgs) :
        /\ m.type = "SubscriptionsLoadedMsg"
        /\ m.Error = NilErr
        /\ \E i \in 1..Len(m.Subscriptions) : m.Subscriptions[i].IsDefault }

\* C23: when the result of a successful az account set for subscription X is
\* handled, app.selectedID becomes X; when a successful load that marks a
\* subscription default is handled, app.selectedID becomes the id of a
\* subscription marked default in that load.
C23_SelectedIdFollows ==
    [][ /\ \A m \in SetSuccesses :
             (~quit /\ UpdateMsg(m))
             => /\ m.gateway
                /\ selectedID' = m.chosen
                /\ selectedID' = m.Subscription.ID
        /\ \A m \in LoadsWithDefault :
             (~quit /\ UpdateMsg(m))
             => \E i \in 1..Len(m.Subscriptions) :
                  /\ m.Subscriptions[i].IsDefault
                  /\ selectedID' = m.Subscriptions[i].ID ]_vars

\* a load that marked sub-2 default has been handled and a set call for it
\* has succeeded since
C23_Witness ==
    /\ state = StateShowingResult
    /\ lastEvent.type = "SubscriptionChangedMsg"
    /\ resultPage # Nil
    /\ resultPage[1].changed
    /\ selectedID = "sub-2"
    /\ Len(subscriptions) = 2
    /\ subscriptions[2].IsDefault
    /\ ~subscriptions[1].IsDefault

-----------------------------------------------------------------------------
(* The flag of the result page *)

\* the results without error of changeSubscription closures
ChangeSuccesses ==
    { m \in BagToSet(msgs) : m.type = "SubscriptionChangedMsg" /\ m.Error = NilErr }

\* C24: the result page entered on a result without error carries
\* changed = TRUE exactly when the confirmation made an az account set call
\* that succeeded, and changed = FALSE when the chosen id was equal to
\* app.selectedID at the confirmation; keys and timer ticks do not modify the
\* flag while the result page exists.
C24_ChangedFlag ==
    [][ /\ \A m \in ChangeSuccesses :
             (~quit /\ UpdateMsg(m))
             => /\ state' = StateShowingResult
                /\ resultPage' # Nil
                /\ resultPage'[1].changed = m.gateway
                /\ m.same => ~resultPage'[1].changed
        /\ (/\ resultPage # Nil
            /\ \/ \E key \in Keys : handleKeyMsg(key)
               \/ \E m \in BagToSet(msgs) :
                    m.type \in {"timer.TickMsg", "timer.TimeoutMsg"} /\ UpdateMsg(m))
           => /\ resultPage' # Nil
              /\ resultPage'[1].changed = resultPage[1].changed ]_vars

-----------------------------------------------------------------------------
(* The PATH lookup *)

\* the list and set results waiting in msgs
Results ==
    { m \in BagToSet(msgs) :
        m.type \in {"SubscriptionsLoadedMsg", "SubscriptionChangedMsg"} }

\* whether the command that returned m looked az up in PATH
LookedUp(m) == m.type = "SubscriptionsLoadedMsg" \/ m.gateway

\* classifyError(ErrAzureCLINotFound)
ToolNotFound == classifyError(ErrAzureCLINotFound)

\* C25: every list or set command that starts the az process has looked az up
\* in PATH before; a failed lookup gives ErrAzureCLINotFound without az being
\* started; the error classifies as not retryable, and handling such a result
\* enters Error with the error stored, schedules no retry and starts no call.
C25_ToolNotFoundFailsFast ==
    [][ /\ \A m \in Results :
             /\ m.invoked => LookedUp(m)
             /\ m.Error = ErrAzureCLINotFound => (LookedUp(m) /\ ~m.invoked)
        /\ ToolNotFound.Type = ErrorTypeConfig
        /\ ~ToolNotFound.Retryable
        /\ \A m \in FailedResults :
             (~quit /\ UpdateMsg(m) /\ m.Error = ErrAzureCLINotFound)
             => /\ state' = StateError
                /\ err' = ErrAzureCLINotFound
                /\ retryCount' = retryCount
                /\ msgs' = Remove(msgs, m)
                /\ cmds' = cmds ]_vars

\* az has gone from PATH between the load and the confirmation
C25_Witness ==
    /\ state = StateError
    /\ err = ErrAzureCLINotFound
    /\ lastEvent.type = "SubscriptionChangedMsg"
    /\ loaded
    /\ resultPage = Nil
    /\ retryCount = 0
    /\ msgs = EmptyBag
    /\ cmds = EmptyBag

-----------------------------------------------------------------------------
(* Parsing *)

RequiredKeys == {"id", "name", "isDefault", "user"}

\* keys of the inputs that no field of Subscription or of its User matches
UnknownKeys == {"cloudName", "tenantId"}

\* the positions of the members of an object that have the key k
MembersOf(obj, k) == { i \in 1..Len(obj.val) : obj.val[i].key = k }

\* the value of the member of key k, for an object with one such member
ValueOf(obj, k) == obj.val[CHOOSE i \in MembersOf(obj, k) : TRUE].value

\* an object with exactly one member for each of the keys, each of its kind,
\* and otherwise only members of unknown keys
HasExactly(obj, kinds) ==
    /\ obj.kind = "object"
    /\ \A i \in 1..Len(obj.val) : obj.val[i].key \in (DOMAIN kinds) \cup UnknownKeys
    /\ \A k \in DOMAIN kinds :
         /\ Cardinality(MembersOf(obj, k)) = 1
         /\ ValueOf(obj, k).kind = kinds[k]

\* a subscription record: id, name, isDefault and user.name, each once
WellFormedRecord(e) ==
    /\ HasExactly(e, [id |-> "string", name |-> "string", isDefault |-> "bool",
                      user |-> "object"])
    /\ HasExactly(ValueOf(e, "user"), [name |-> "string"])

WellFormed(d) ==
    /\ d.kind = "array"
    /\ \A i \in 1..Len(d.val) : WellFormedRecord(d.val[i])

MissingField(e) ==
    /\ e.kind = "object"
    /\ \/ \E k \in RequiredKeys : MembersOf(e, k) = {}
       \/ /\ ValueOf(e, "user").kind = "object"
          /\ MembersOf(ValueOf(e, "user"), "name") = {}

\* C27: parseSubscriptions returns an error for an array with an element that
\* misses id, name, isDefault or user.name, for a top-level value that is not
\* an array (object, null, string, number) and for a text that is not JSON.
C27_ParseMalformed ==
    ( /\ parsed # Nil
      /\ \/ data.kind # "array"
         \/ \E i \in 1..Len(data.val) : MissingField(data.val[i]) )
    => parsed[1].err # NilErr

-----------------------------------------------------------------------------
(* The window size *)

\* C28: handling a tea.WindowSizeMsg, in any state, stores the width and the
\* height and gives the list its size, and nothing else: app.state,
\* retryCount, lastOperation, selectedID, err, the subscriptions and the
\* result page are unchanged, and no message or closure is added (no az
\* invocation, no tick, no timer).
C28_ResizeOnlyDimensions ==
    [][ \A size \in WindowSizes :
          (~quit /\ handleWindowSizeMsg(WindowSizeMsg(size[1], size[2])))
          => /\ width' = size[1]
             /\ height' = size[2]
             /\ listSize' = [width |-> size[1] - FrameWidth,
                             height |-> size[2] - FrameHeight]
             /\ state' = state
             /\ retryCount' = retryCount
             /\ lastOperation' = lastOperation
             /\ selectedID' = selectedID
             /\ err' = err
             /\ subscriptions' = subscriptions
             /\ list'.items = list.items
             /\ resultPage' = resultPage
             /\ cmds' = cmds
             /\ msgs' = msgs
             /\ quit' = quit ]_vars

\* the window was resized while the machine was waiting for a retry, with a
\* set call that had failed before
C28_Witness ==
    /\ lastEvent.type = "tea.WindowSizeMsg"
    /\ state = StateRetrying
    /\ lastOperation = "change"
    /\ retryCount = 1
    /\ width = 120
    /\ height = 40
    /\ listSize = [width |-> 116, height |-> 38]

-----------------------------------------------------------------------------
(* Invocations at the same time *)

\* the number of az invocations (account list or account set) outstanding:
\* the az process has been started and its result has not been handled yet
Outstanding ==
    LET results == { m \in Results : m.invoked }
        Sum[S \in SUBSET results] ==
            IF S = {} THEN 0
            ELSE LET m == CHOOSE x \in S : TRUE
                 IN  CopiesIn(m, msgs) + Sum[S \ {m}]
    IN  Sum[results]

\* C29: at most one az invocation is outstanding at any time, whatever keys
\* the user presses.
C29_OneInvocationOutstanding ==
    Outstanding <= 1

-----------------------------------------------------------------------------
(* Retry events that arrive late *)

\* the RetryMsg of backoff ticks waiting in msgs
TickRetries ==
    { m \in BagToSet(msgs) : m.type = "RetryMsg" /\ m.from = "tick" }

\* C30: the RetryMsg of a backoff tick is handled only while app.state is
\* Retrying; handled in SelectingSubscription, ShowingResult or Error it
\* starts no list invocation and no changeSubscription closure and leaves
\* app.state as it is.
C30_TickRetryOnlyInRetrying ==
    [][ \A m \in TickRetries :
          (~quit /\ UpdateMsg(m))
          => /\ state = StateRetrying
             /\ state \in {StateSelectingSubscription, StateShowingResult, StateError}
                  => (~StartsCall /\ state' = state) ]_vars

-----------------------------------------------------------------------------
(* The timeout of an abandoned result page *)

\* C31: a timer.TimeoutMsg ends the program only while app.state is
\* ShowingResult: once a back has been handled, the timeout of the abandoned
\* result page does not end the program in SelectingSubscription or a later
\* state.
C31_TimeoutOnlyInShowingResult ==
    (quit /\ lastEvent.type = "timer.TimeoutMsg") => state = StateShowingResult

-----------------------------------------------------------------------------
(* An unchanged result *)

\* the results of confirmations that found the chosen id equal to
\* app.selectedID: Changed = false and no error
UnchangedResults ==
    { m \in ChangeSuccesses : ~m.Changed }

\* C32: handling an 'unchanged' result leaves app.selectedID as it was.
C32_UnchangedKeepsSelectedId ==
    [][ \A m \in UnchangedResults :
          (~quit /\ UpdateMsg(m)) => selectedID' = selectedID ]_vars

-----------------------------------------------------------------------------
(* The operation recorded in Error *)

\* C33: when the failure of a list or set call makes the machine enter Error,
\* app.lastOperation is the operation that failed ("load" for a list call,
\* "change" for a set call), and it is not empty in Error.
C33_LastOperationInError ==
    [][ /\ \A m \in FailedResults :
             (~quit /\ UpdateMsg(m) /\ state' = StateError)
             => lastOperation' = OperationOf(m)
        /\ state' = StateError => lastOperation' # "" ]_vars

-----------------------------------------------------------------------------
(* The list behind SelectingSubscription *)

\* C34: whenever app.state is SelectingSubscription, a load result without
\* error has been handled before.
C34_SelectingOnlyAfterLoad ==
    state = StateSelectingSubscription => loaded

-----------------------------------------------------------------------------
(* Waiting states *)

\* what the machine can be waiting for in Retrying: the RetryMsg of a backoff
\* tick, a closure returned by handleRetry that has not run yet, or the result
\* of a re-invoked call or of another call on its way
RetryPending ==
    \/ TickRetries # {}
    \/ \E c \in BagToSet(cmds) : c.origin = "retry"
    \/ Results # {}

\* C35: the machine is never left waiting for nothing: in Loading the result
\* of a list call is on its way, and in Retrying retryCount >= 1 and a backoff
\* tick is pending or a call is in flight; every message on its way is
\* handled by Update, which leaves Loading and Retrying.
C35_NeverStuckWaiting ==
    /\ state = StateLoading => ListResults(msgs) >= 1
    /\ state = StateRetrying => (retryCount >= 1 /\ RetryPending)

\* Loading entered again by a retry, the re-invoked list call on its way
C35_Witness ==
    /\ state = StateLoading
    /\ lastEvent.type = "RetryMsg"
    /\ lastOperation = "load"
    /\ retryCount = 2
    /\ ListResults(msgs) = 1
    /\ TickRetries = {}

-----------------------------------------------------------------------------
(* The end of the retry loop *)

\* the states in which the machine waits for the user, and the end of the
\* program
Settled ==
    \/ state \in {StateSelectingSubscription, StateError}
    \/ quit

\* C36: the automatic retries come to an end: when every command returns and
\* every message is handled, the machine is in SelectingSubscription or Error
\* or the program has ended, again and again; so after the last key of the
\* user it reaches one of them, also when every call fails with a retryable
\* error.
C36_RetryLoopTerminates ==
    []<>Settled

\* every attempt of a set call has failed with a retryable error
C36_Witness ==
    /\ state = StateError
    /\ lastEvent.type = "SubscriptionChangedMsg"
    /\ lastOperation = "change"
    /\ retryCount = MaxRetries
    /\ err = "failed to change subscription: exit status 1"
    /\ msgs = EmptyBag
    /\ cmds = EmptyBag

-----------------------------------------------------------------------------
(* The error shown in Error *)

\* C37: whenever app.state is Error, app.err is not nil, so errorView has an
\* error to classify, after any failures, retries and back navigations.
C37_ErrorHasErr ==
    state = StateError => err # NilErr

\* Error entered for the third time, after two presses of the retry key
C37_Witness ==
    /\ state = StateError
    /\ presses = 2
    /\ lastEvent.type = "SubscriptionsLoadedMsg"
    /\ ~lastEvent.ok
    /\ retryCount = MaxRetries
    /\ err # NilErr

-----------------------------------------------------------------------------
(* The delays of the automatic retries *)

\* the delay before the n-th automatic retry in a row, in milliseconds
NthDelay == <<1000, 2000, 4000>>

\* C38: the tick scheduled for the n-th automatic retry in a row
\* (n = 1..maxRetries) has the delay of the counter already incremented to n,
\* min(500ms * 2^n, 5s), that is 1s, 2s, 4s; no tick has the base delay of
\* 500ms.
C38_DelayFromIncrementedCount ==
    [][ /\ \A m \in FailedResults :
             (~quit /\ UpdateMsg(m) /\ state' = StateRetrying)
             => /\ retryCount' = retryCount + 1
                /\ retryCount' \in 1..MaxRetries
                /\ \E t \in BagToSet(msgs') :
                     /\ t.type = "RetryMsg" /\ t.from = "tick"
                     /\ CopiesIn(t, msgs') = CopiesIn(t, msgs) + 1
                     /\ t.delay = Min(BaseDelay * (2 ^ retryCount'), MaxDelay)
                     /\ t.delay = NthDelay[retryCount']
        /\ \A t \in TickRetries : t.delay # BaseDelay ]_vars

\* the third retry in a row is scheduled, four seconds ahead
C38_Witness ==
    /\ state = StateRetrying
    /\ retryCount = 3
    /\ lastOperation = "load"
    /\ lastEvent.type = "SubscriptionsLoadedMsg"
    /\ \E t \in TickRetries : t.delay = 4000
    /\ presses = 0

-----------------------------------------------------------------------------
(* Failures of az account list *)

\* the error loadSubscriptions returns when az account list fails with the
\* diagnostic cause
ListFailure(cause) ==
    Errorf("failed to fetch subscription data",
           Errorf("azure CLI command failed", cause))

\* diagnostics of a failed az process
ExecCauses == ListCauses \cup ErrorTexts \cup {"exit status 2", "signal: killed"}

\* the list failures whose text has no network, auth or permission keyword
PlainListFailures ==
    { e \in { ListFailure(c) : c \in ExecCauses } :
        ~(Matches(e, ErrorTypeNetwork) \/ Matches(e, ErrorTypeAuth)
          \/ Matches(e, ErrorTypePermission)) }

\* no list failure is Unknown, and one without a keyword of the other kinds
\* is Config and not retryable
ListFailureTable ==
    /\ \A c \in ExecCauses : classifyError(ListFailure(c)).Type # ErrorTypeUnknown
    /\ \A e \in PlainListFailures :
         /\ classifyError(e).Type = ErrorTypeConfig
         /\ ~classifyError(e).Retryable

\* C39: a failure of the az account list command is never classified Unknown:
\* its text holds "azure CLI command failed", so without a network, auth or
\* permission keyword it is Config and not retryable, and handling it enters
\* Error with the error stored and no retry scheduled.
C39_ListFailureIsConfig ==
    [][ /\ ListFailureTable
        /\ \A m \in FailedResults :
             ( /\ ~quit
               /\ UpdateMsg(m)
               /\ m.type = "SubscriptionsLoadedMsg"
               /\ m.Error \in PlainListFailures )
             => /\ state' = StateError
                /\ err' = m.Error
                /\ retryCount' = retryCount
                /\ msgs' = Remove(msgs, m)
                /\ cmds' = cmds ]_vars

\* az account list has failed with exit status 1 at the start of the program
C39_Witness ==
    /\ state = StateError
    /\ err = ListFailure("exit status 1")
    /\ lastEvent.type = "SubscriptionsLoadedMsg"
    /\ retryCount = 0
    /\ lastOperation = ""
    /\ presses = 0
    /\ msgs = EmptyBag

-----------------------------------------------------------------------------
(* Failures of the parser *)

\* the error loadSubscriptions returns when parseSubscriptions fails with the
\* diagnostic cause
ParseFailure(cause) ==
    Errorf("failed to parse subscription data",
           Errorf("failed to unmarshal JSON", cause))

\* diagnostics of json.Unmarshal: those of the list results and those of the
\* parser for a text that is not JSON, a value that is not an array and an
\* element that is not a record
ParseDiagnostics ==
    ParseCauses
    \cup { Unmarshal(d).err : d \in {JInvalid, JNumber(1), JArray(<<JNumber(1)>>)} }

\* the parse failures whose text has none of the classifier's keywords
PlainParseFailures ==
    { e \in { ParseFailure(c) : c \in ParseDiagnostics } :
        \A i \in 1..Len(Priority) : ~Matches(e, Priority[i]) }

\* such a failure is Unknown and retryable
ParseFailureTable ==
    /\ PlainParseFailures # {}
    /\ \A e \in PlainParseFailures :
         /\ classifyError(e).Type = ErrorTypeUnknown
         /\ classifyError(e).Retryable

\* C40: a parse failure of the list payload without a classifier keyword is
\* Unknown and retryable: while retryCount < maxRetries handling it enters
\* Retrying for "load" with a tick scheduled, whose RetryMsg fetches the list
\* again; at retryCount = maxRetries it enters Error with the error stored.
C40_ParseFailureRetried ==
    [][ /\ ParseFailureTable
        /\ \A m \in FailedResults :
             (~quit /\ UpdateMsg(m) /\ m.Error \in PlainParseFailures)
             => IF retryCount < MaxRetries
                THEN /\ state' = StateRetrying
                     /\ retryCount' = retryCount + 1
                     /\ lastOperation' = "load"
                     /\ CopiesIn(retryOperation(retryCount'), msgs')
                          = CopiesIn(retryOperation(retryCount'), msgs) + 1
                ELSE /\ state' = StateError
                     /\ err' = m.Error
                     /\ msgs' = Remove(msgs, m)
        /\ \A t \in TickRetries :
             (~quit /\ UpdateMsg(t) /\ lastOperation = "load")
             => /\ state' = StateLoading
                /\ ListResults(msgs') = ListResults(msgs) + 1 ]_vars

\* the payload did not parse four times in a row: three retries, then Error
C40_Witness ==
    /\ state = StateError
    /\ err = ParseFailure("unexpected end of JSON input")
    /\ lastEvent.type = "SubscriptionsLoadedMsg"
    /\ retryCount = MaxRetries
    /\ lastOperation = "load"
    /\ unattended # Nil
    /\ unattended[1].listCalls = MaxRetries + 1

====
